---- MODULE Spec2Model ----
(***************************************************************************)
(* AutoHost backend: one TerminalSession of the TerminalManager, the       *)
(* endpoints that create it (connect_terminal, execute_script), and the    *)
(* requests that run against it concurrently (the websocket streamer, an   *)
(* input command, remove_session).                                         *)
(*                                                                         *)
(* Scheduling.  The endpoints are asyncio coroutines of one event loop: a  *)
(* coroutine runs without interruption from one await to the next, so each *)
(* action below is one such stretch.  Every Driver call goes through       *)
(* loop.run_in_executor(None, f): f runs in a thread of the default pool   *)
(* while the coroutine is suspended; `executor` holds the calls that have  *)
(* been submitted and have not finished.  An action named ...Return is the *)
(* worker thread finishing f together with the coroutine's stretch after   *)
(* the await.  The Driver (tnz.py3270.Emulator) is external: any call on   *)
(* it may raise, which the actions draw as ok \in BOOLEAN.                 *)
(***************************************************************************)
EXTENDS Integers, Sequences, FiniteSets, TLC

\* ---------------------------------------------------------------- bounds
MaxSteps == 3       \* steps of the script that execute_script loads
MaxTicks == 2       \* iterations of the streamer's loop
MaxRequests == 2    \* requests started against the session besides its creator
MaxCalls == 2       \* method calls of each client of SpecSession
MaxRow == 5         \* largest row given to move_cursor in SpecCursor
MaxCol == 7         \* largest column given to move_cursor in SpecCursor
MaxKeyLen == 3      \* longest key name spelled from KeyAlphabet in SpecKey
MaxLines == 2       \* lines the Emulator returns from Ascii() in SpecStep
MaxLineLen == 1     \* characters of a screen line after its prefix in SpecStep
MaxTextLen == 2     \* characters of the text of a step in SpecStep

\* ------------------------------------------------------------- constants
None == 0           \* self.connection before _sync_connect assigns it
SID == "s1"         \* the session id create_session returns

Requests == {"ws", "in", "rm1", "rm2"}
Removers == {"rm1", "rm2"}
Clients == {"c1", "c2"}
Tasks == {"main"} \cup Requests \cup Clients

\* ActionType, with the two shapes of a positional step (row and col both
\* given, or not): execute_step branches on them.
ActionType ==
    { "connect", "send_text", "send_key", "move_cursor", "wait",
      "wait_for_text", "read_screen", "read_position", "assert_text",
      "screenshot", "disconnect" }

Positional == {"send_text", "move_cursor"}

\* AutomationStep: id, action, whether row and col are both present, whether
\* text is non-empty.  Ids are strings; the k-th step of the script has the
\* id StepId(k).
StepId(k) == ToString(k)

AutomationStep(k) ==
    { [id |-> StepId(k), action |-> a, pos |-> p, text |-> x] :
        a \in ActionType, p \in BOOLEAN, x \in BOOLEAN }

\* The k-th step of a script: the steps that differ in what execute_step
\* does with them.  The script is read-only input that the for loop reads
\* one step at a time, so the model draws step k when the loop reaches it
\* (nsteps, the length, is drawn when the script is loaded): the runs are
\* the runs over all scripts of at most MaxSteps steps.
StepsAt(k) ==
    { s \in AutomationStep(k) :
        /\ s.pos => s.action \in Positional
        /\ ~s.text => s.action = "assert_text" }

NoStep == [id |-> "", action |-> "none", pos |-> FALSE, text |-> FALSE]

\* ExecutionLog(step_id, status); message and timestamp are left out
ExecutionLog(id, status) == [step_id |-> id, status |-> status]

\* TerminalInput / the websocket's input command: which fields are present
InputData == [pos : BOOLEAN, text : BOOLEAN, key : BOOLEAN]
NoData == [pos |-> FALSE, text |-> FALSE, key |-> FALSE]

VARIABLES
    sessions,       \* TerminalManager.sessions: the ids registered
    connection,     \* TerminalSession.connection: None or an Emulator
    is_connected,   \* TerminalSession.is_connected
    emulators,      \* the Emulator objects made for the session, each
                    \* "new", "connected" or "closed"
    executor,       \* the Driver calls in flight in the thread pool
    pc,             \* where each task is
    entry,          \* the endpoint that created the session
    nsteps,         \* len(script.steps)
    i,              \* steps the for loop has taken from script.steps
    step,           \* the step execute_step is running (NoStep when none is)
    logs,           \* execute_script's logs
    response,       \* what the creating endpoint returned
    ticks,          \* iterations the streamer has begun
    events,         \* what the streamer sent to the websocket
    data,           \* the input command being handled (NoData when none is)
    stage,          \* which call of the input command is in progress (0: none)
    result,         \* what each remove_session call ended with
    ncalls,         \* SpecSession: method calls each client has made
    call,           \* the method call looked at with its arguments
    emulator,       \* what the Emulator holds and was asked to do in that call
    returned        \* what that call returned or raised

session == <<connection, is_connected, emulators, executor>>
script == <<entry, nsteps, i, step, logs, response>>
streamer == <<ticks, events>>
input == <<data, stage>>
program == <<sessions, session, pc, script, streamer, input, result, ncalls>>
bridge == <<call, emulator, returned>>
vars == <<program, bridge>>

\* No method call is looked at with its data
NoCall == [method |-> "none"]

InitProgram ==
    /\ sessions = {}
    /\ connection = None
    /\ is_connected = FALSE
    /\ emulators = <<>>
    /\ executor = {}
    /\ pc = [t \in Tasks |-> "idle"]
    /\ entry = "none"
    /\ nsteps = 0
    /\ i = 0
    /\ step = NoStep
    /\ logs = <<>>
    /\ response = "none"
    /\ ticks = 0
    /\ events = <<>>
    /\ data = NoData
    /\ stage = 0
    /\ result = [t \in Removers \cup {"main"} |-> "none"]
    /\ ncalls = [c \in Clients |-> 0]

Init ==
    /\ InitProgram
    /\ call = NoCall
    /\ emulator = NoCall
    /\ returned = NoCall

\* ------------------------------------------------- the Blocking Bridge
\* A call in the thread pool: who awaits it, the function, and the Emulator
\* the function acts on (None while _sync_connect has not made one).
Call(t, op, h) == [task |-> t, op |-> op, h |-> h]

CallOf(t) == {c \in executor : c.task = t}

\* loop.run_in_executor(None, op)
run_in_executor(t, op) ==
    /\ executor' = executor \cup
         {Call(t, op, IF op = "_sync_connect" THEN None ELSE connection)}
    /\ UNCHANGED <<connection, is_connected, emulators>>

\* A connect that sets is_connected whatever _sync_connect did
FinishSetsConnected(c, ok) ==
    /\ executor' = executor \ {c}
    /\ UNCHANGED connection
    /\ CASE c.op = "_sync_connect" ->
              /\ ok => c.h # None
              /\ emulators' = IF ok THEN [emulators EXCEPT ![connection] = "connected"]
                                    ELSE emulators
              /\ is_connected' = TRUE
         [] c.op = "Disconnect" ->
              /\ emulators' = IF ok THEN [emulators EXCEPT ![c.h] = "closed"]
                                    ELSE emulators
              /\ is_connected' = (~ok /\ is_connected)
         [] OTHER -> UNCHANGED <<emulators, is_connected>>

\* The worker thread finishes call c (ok: the Driver did not raise) and the
\* method that awaited it runs to its end: connect sets is_connected after
\* _sync_connect, disconnect clears it after Disconnect.
Finish(c, ok) ==
    /\ executor' = executor \ {c}
    /\ UNCHANGED connection
    /\ CASE c.op = "_sync_connect" ->
              /\ ok => c.h # None
              /\ emulators' = IF ok THEN [emulators EXCEPT ![connection] = "connected"]
                                    ELSE emulators
              /\ is_connected' = (ok \/ is_connected)
         [] c.op = "Disconnect" ->
              /\ emulators' = IF ok THEN [emulators EXCEPT ![c.h] = "closed"]
                                    ELSE emulators
              /\ is_connected' = (~ok /\ is_connected)
         [] OTHER -> UNCHANGED <<emulators, is_connected>>

\* _sync_connect in its thread: self.connection = Emulator(visible=False)
SyncConnectEmulator ==
    \E c \in executor :
        /\ c.op = "_sync_connect"
        /\ c.h = None
        /\ emulators' = Append(emulators, "new")
        /\ connection' = Len(emulators) + 1
        /\ executor' = (executor \ {c}) \cup {[c EXCEPT !.h = Len(emulators) + 1]}
        /\ UNCHANGED <<sessions, is_connected, pc, script,
                       streamer, input, result, ncalls, bridge>>

\* ------------------------------------------------------ TerminalManager
\* remove_session up to its first await, called by task t: the session is
\* looked up, disconnected if is_connected, and deleted.
remove_session(t) ==
    IF SID \notin sessions
    THEN /\ result' = [result EXCEPT ![t] = "ok"]
         /\ pc' = [pc EXCEPT ![t] = "done"]
         /\ UNCHANGED <<sessions, session>>
    ELSE IF is_connected /\ connection # None
    THEN /\ run_in_executor(t, "Disconnect")
         /\ pc' = [pc EXCEPT ![t] = "rm_disconnect"]
         /\ UNCHANGED <<sessions, result>>
    ELSE /\ sessions' = sessions \ {SID}
         /\ result' = [result EXCEPT ![t] = "ok"]
         /\ pc' = [pc EXCEPT ![t] = "done"]
         /\ is_connected' = FALSE
         /\ UNCHANGED <<connection, emulators, executor>>

\* remove_session after session.disconnect() returned or raised:
\* del self.sessions[session_id] raises KeyError when the id is gone.
remove_session_resume(t, c, ok) ==
    /\ Finish(c, ok)
    /\ pc' = [pc EXCEPT ![t] = "done"]
    /\ IF ~ok
       THEN /\ result' = [result EXCEPT ![t] = "error"]
            /\ UNCHANGED sessions
       ELSE IF SID \in sessions
       THEN /\ result' = [result EXCEPT ![t] = "ok"]
            /\ sessions' = sessions \ {SID}
       ELSE /\ result' = [result EXCEPT ![t] = "KeyError"]
            /\ UNCHANGED sessions

\* Requests against the session that have been started
Started == {t \in Requests : pc[t] # "idle"}

MayStart(t) ==
    /\ pc[t] = "idle"
    /\ pc["main"] # "idle"
    /\ Cardinality(Started) < MaxRequests

\* --------------------------------------------- the creating endpoints
\* connect_terminal up to the await inside session.connect()
ConnectTerminal ==
    /\ pc["main"] = "idle"
    /\ entry' = "connect_terminal"
    /\ sessions' = sessions \cup {SID}
    /\ run_in_executor("main", "_sync_connect")
    /\ pc' = [pc EXCEPT !["main"] = "connect"]
    /\ UNCHANGED <<nsteps, i, step, logs, response, streamer, input, result, ncalls, bridge>>

\* execute_script up to the await inside session.connect()
ExecuteScript ==
    /\ pc["main"] = "idle"
    /\ entry' = "execute_script"
    /\ \E n \in 0..MaxSteps : nsteps' = n
    /\ sessions' = sessions \cup {SID}
    /\ run_in_executor("main", "_sync_connect")
    /\ pc' = [pc EXCEPT !["main"] = "connect"]
    /\ UNCHANGED <<i, step, logs, response, streamer, input, result, ncalls, bridge>>

\* session.connect() returns or raises in the creating endpoint
ConnectReturn ==
    /\ pc["main"] = "connect"
    /\ \E c \in CallOf("main"), ok \in BOOLEAN :
        /\ Finish(c, ok)
        /\ IF entry = "execute_script"
           THEN /\ logs' = IF ok THEN <<ExecutionLog("connect", "success")>> ELSE logs
                /\ pc' = [pc EXCEPT !["main"] = IF ok THEN "loop" ELSE "except"]
                /\ UNCHANGED response
           ELSE /\ response' = IF ok THEN "connected" ELSE "http500"
                /\ pc' = [pc EXCEPT !["main"] = "done"]
                /\ UNCHANGED logs
    /\ UNCHANGED <<sessions, entry, nsteps, i, step, streamer, input, result, ncalls, bridge>>

\* execute_script's outer except: remove_session, then HTTPException(500)
ExecuteScriptExcept ==
    /\ pc["main"] = "except"
    /\ remove_session("main")
    /\ response' = IF pc'["main"] = "done" THEN "http500" ELSE response
    /\ UNCHANGED <<entry, nsteps, i, step, logs, streamer, input, ncalls, bridge>>

\* -------------------------------------------------------- execute_step
\* The function a step hands to the executor; "none" when it makes no call.
StepCall(s) ==
    CASE s.action = "send_text" -> "_send_text"
      [] s.action = "send_key" -> "_send_key"
      [] s.action = "move_cursor" -> IF s.pos THEN "MoveCursor" ELSE "none"
      [] s.action = "wait_for_text" -> "_wait"
      [] s.action \in {"read_screen", "assert_text"} -> "_get_data"
      [] s.action = "disconnect" -> "Disconnect"
      [] OTHER -> "none"

\* What execute_script does with a step that succeeded
StepSucceeded(s) ==
    /\ logs' = Append(logs, ExecutionLog(s.id, "success"))
    /\ pc' = [pc EXCEPT !["main"] = "loop"]
    /\ step' = NoStep
    /\ UNCHANGED response

\* The status execute_script returns after the loop
StepStatus == "completed"

\* A loop that logs the error and goes on with the next step
StepFailedNoBreak(s) ==
    /\ logs' = Append(logs, ExecutionLog(s.id, "error"))
    /\ pc' = [pc EXCEPT !["main"] = "loop"]
    /\ step' = NoStep
    /\ UNCHANGED response

\* A loop without the inner try: the step's exception leaves the loop and
\* reaches the handler of the connect failure
StepFailedEscapes(s) ==
    /\ pc' = [pc EXCEPT !["main"] = "except"]
    /\ step' = NoStep
    /\ UNCHANGED <<logs, response>>

\* What execute_script does with a step that raised: log it, break, return
StepFailed(s) ==
    /\ logs' = Append(logs, ExecutionLog(s.id, "error"))
    /\ pc' = [pc EXCEPT !["main"] = "done"]
    /\ step' = NoStep
    /\ response' = StepStatus

\* An execute_step that hands the call to the executor without awaiting it
execute_stepNoAwait(s) ==
    IF s.action = "wait"
    THEN /\ pc' = [pc EXCEPT !["main"] = "sleep"]
         /\ step' = s
         /\ UNCHANGED <<session, logs, response>>
    ELSE IF StepCall(s) = "none" \/ (s.action = "disconnect" /\ connection = None)
    THEN /\ StepSucceeded(s)
         /\ UNCHANGED session
    ELSE IF connection = None
    THEN /\ StepFailed(s)
         /\ UNCHANGED session
    ELSE /\ run_in_executor("main", StepCall(s))
         /\ StepSucceeded(s)

\* execute_step(session, s) up to its first await
execute_step(s) ==
    IF s.action = "wait"
    THEN /\ pc' = [pc EXCEPT !["main"] = "sleep"]
         /\ step' = s
         /\ UNCHANGED <<session, logs, response>>
    ELSE IF StepCall(s) = "none" \/ (s.action = "disconnect" /\ connection = None)
    THEN /\ StepSucceeded(s)
         /\ UNCHANGED session
    ELSE IF connection = None
    THEN /\ StepFailed(s)
         /\ UNCHANGED session
    ELSE /\ run_in_executor("main", StepCall(s))
         /\ pc' = [pc EXCEPT !["main"] = "await"]
         /\ step' = s
         /\ UNCHANGED <<logs, response>>

\* A loop that stops one step short of the end of the script
ScriptStepOffByOne ==
    /\ pc["main"] = "loop"
    /\ IF i + 1 >= nsteps
       THEN /\ response' = "completed"
            /\ pc' = [pc EXCEPT !["main"] = "done"]
            /\ UNCHANGED <<session, i, step, logs>>
       ELSE \E s \in StepsAt(i + 1) :
            /\ i' = i + 1
            /\ execute_step(s)
    /\ UNCHANGED <<sessions, entry, nsteps, streamer, input, result, ncalls, bridge>>

\* A loop that takes a step without moving on in the script
ScriptStepNoAdvance ==
    /\ pc["main"] = "loop"
    /\ IF i = nsteps
       THEN /\ response' = "completed"
            /\ pc' = [pc EXCEPT !["main"] = "done"]
            /\ UNCHANGED <<session, i, step, logs>>
       ELSE \E s \in StepsAt(i + 1) :
            /\ i' = i
            /\ execute_step(s)
    /\ UNCHANGED <<sessions, entry, nsteps, streamer, input, result, ncalls, bridge>>

\* The for loop of execute_script takes the next step, or returns
ScriptStep ==
    /\ pc["main"] = "loop"
    /\ IF i = nsteps
       THEN /\ response' = "completed"
            /\ pc' = [pc EXCEPT !["main"] = "done"]
            /\ UNCHANGED <<session, i, step, logs>>
       ELSE \E s \in StepsAt(i + 1) :
            /\ i' = i + 1
            /\ execute_step(s)
    /\ UNCHANGED <<sessions, entry, nsteps, streamer, input, result, ncalls, bridge>>

\* _send of send_text in its thread, row and col given: MoveCursor has
\* returned and String is the call that is left
SendTextMoveCursor ==
    /\ pc["main"] = "await"
    /\ step.action = "send_text"
    /\ step.pos
    /\ \E c \in CallOf("main") :
        /\ c.op = "_send_text"
        /\ executor' = (executor \ {c}) \cup {[c EXCEPT !.op = "String"]}
    /\ UNCHANGED <<sessions, connection, is_connected, emulators, pc, script,
                   streamer, input, result, ncalls, bridge>>

\* The step's Driver call finishes (a _send that has not moved the cursor
\* yet finishes only by MoveCursor raising).  _wait turns a Driver failure into
\* False and execute_step raises on False; assert_text raises when the step
\* has a text and the screen read does not contain it (found).
ScriptStepReturn ==
    /\ pc["main"] = "await"
    /\ \E c \in CallOf("main"), ok \in BOOLEAN, found \in BOOLEAN :
        /\ (c.op = "_send_text" /\ step.pos) => ~ok
        /\ Finish(c, ok)
        /\ IF ok /\ (step.action = "assert_text" /\ step.text => found)
           THEN StepSucceeded(step)
           ELSE StepFailed(step)
    /\ UNCHANGED <<sessions, entry, nsteps, i, streamer, input, result, ncalls, bridge>>

\* asyncio.sleep of a wait step ends
ScriptSleepReturn ==
    /\ pc["main"] = "sleep"
    /\ StepSucceeded(step)
    /\ UNCHANGED <<sessions, session, entry, nsteps, i, streamer, input, result,
                   ncalls, bridge>>

\* ------------------------------------------------- send_screen_updates
\* terminal_websocket creates the task; send_screen_updates looks the
\* session up and returns when there is none.
WsStart ==
    /\ MayStart("ws")
    /\ pc' = [pc EXCEPT !["ws"] = IF SID \in sessions THEN "wait" ELSE "returned"]
    /\ UNCHANGED <<sessions, session, script, streamer, input, result, ncalls, bridge>>

\* One iteration of the while loop up to its await
WsTick ==
    /\ pc["ws"] = "wait"
    /\ ticks < MaxTicks
    /\ ticks' = ticks + 1
    /\ IF ~is_connected
       THEN UNCHANGED <<session, pc, events>>
       ELSE IF connection = None
       THEN /\ events' = Append(events, "error")
            /\ UNCHANGED <<session, pc>>
       ELSE /\ run_in_executor("ws", "_get_data")
            /\ pc' = [pc EXCEPT !["ws"] = "read"]
            /\ UNCHANGED events
    /\ UNCHANGED <<sessions, script, input, result, ncalls, bridge>>

\* A loop without the inner try: a failed read ends the task
WsReadReturnFailEnds ==
    /\ pc["ws"] = "read"
    /\ \E c \in CallOf("ws"), ok \in BOOLEAN :
        /\ Finish(c, ok)
        /\ events' = IF ok THEN Append(events, "screen_update") ELSE events
        /\ pc' = [pc EXCEPT !["ws"] = IF ok THEN "wait" ELSE "failed"]
    /\ UNCHANGED <<sessions, script, ticks, input, result, ncalls, bridge>>

\* get_screen_data returns or raises; the event is sent (send_json is taken
\* to deliver: terminal_websocket cancels the task when the socket closes);
\* asyncio.sleep
WsReadReturn ==
    /\ pc["ws"] = "read"
    /\ \E c \in CallOf("ws"), ok \in BOOLEAN :
        /\ Finish(c, ok)
        /\ events' = Append(events, IF ok THEN "screen_update" ELSE "error")
    /\ pc' = [pc EXCEPT !["ws"] = "wait"]
    /\ UNCHANGED <<sessions, script, ticks, input, result, ncalls, bridge>>

\* A cancellation handler that tears the session down
WsCancelCleansUp ==
    /\ pc["ws"] \in {"wait", "read"}
    /\ pc' = [pc EXCEPT !["ws"] = "cancelled"]
    /\ sessions' = sessions \ {SID}
    /\ is_connected' = FALSE
    /\ UNCHANGED <<connection, emulators, executor, script, streamer, input,
                   result, ncalls, bridge>>

\* update_task.cancel(): CancelledError at the await the task is suspended in
WsCancel ==
    /\ pc["ws"] \in {"wait", "read"}
    /\ pc' = [pc EXCEPT !["ws"] = "cancelled"]
    /\ UNCHANGED <<sessions, session, script, streamer, input, result, ncalls, bridge>>

\* The thread of a call whose awaiting task was cancelled finishes
OrphanReturn ==
    /\ \E c \in executor, ok \in BOOLEAN :
        /\ pc[c.task] = "cancelled"
        /\ Finish(c, ok)
    /\ UNCHANGED <<sessions, pc, script, streamer, input, result, ncalls, bridge>>

\* ------------------------------- handle_input_command / send_input
\* The calls of a command are numbered in the order of the code:
\* 1 move_cursor, 2 send_text, 3 send_key.
Present(d, k) ==
    CASE k = 1 -> d.pos
      [] k = 2 -> d.text
      [] k = 3 -> d.key

\* A command that sends the key before the text
StageCallKeyFirst(k) ==
    CASE k = 1 -> "MoveCursor"
      [] k = 2 -> "_send_key"
      [] k = 3 -> "_send_text"

StageCall(k) ==
    CASE k = 1 -> "MoveCursor"
      [] k = 2 -> "_send_text"
      [] k = 3 -> "_send_key"

\* The first call after stage k that the command asks for; 4 when none
NextStage(d, k) ==
    IF \E j \in (k + 1)..3 : Present(d, j)
    THEN CHOOSE j \in (k + 1)..3 :
            /\ Present(d, j)
            /\ \A m \in (k + 1)..(j - 1) : ~Present(d, m)
    ELSE 4

\* The command goes on after stage k: the next call is made, or the
\* command ends (no call left, or "Not connected" raised and caught).
input_next(d, k) ==
    IF NextStage(d, k) = 4 \/ connection = None
    THEN /\ pc' = [pc EXCEPT !["in"] = "done"]
         /\ data' = NoData
         /\ stage' = 0
         /\ UNCHANGED session
    ELSE /\ run_in_executor("in", StageCall(NextStage(d, k)))
         /\ data' = d
         /\ stage' = NextStage(d, k)
         /\ pc' = [pc EXCEPT !["in"] = "await"]

InputCommand ==
    /\ MayStart("in")
    /\ IF SID \notin sessions
       THEN /\ pc' = [pc EXCEPT !["in"] = "done"]
            /\ UNCHANGED <<session, input>>
       ELSE \E d \in InputData : input_next(d, 0)
    /\ UNCHANGED <<sessions, script, streamer, result, ncalls, bridge>>

\* A call of the command finishes: an exception ends the command
InputReturn ==
    /\ pc["in"] = "await"
    /\ \E c \in CallOf("in"), ok \in BOOLEAN :
        /\ Finish(c, ok)
        /\ pc' = [pc EXCEPT !["in"] = IF ok THEN "next" ELSE "done"]
        /\ data' = IF ok THEN data ELSE NoData
        /\ stage' = IF ok THEN stage ELSE 0
    /\ UNCHANGED <<sessions, script, streamer, result, ncalls, bridge>>

\* ... and the command goes on with what follows the call
InputNext ==
    /\ pc["in"] = "next"
    /\ input_next(data, stage)
    /\ UNCHANGED <<sessions, script, streamer, result, ncalls, bridge>>

\* ------------------------------- disconnect_terminal / remove_session
RemoveSession(t) ==
    /\ MayStart(t)
    /\ remove_session(t)
    /\ UNCHANGED <<script, streamer, input, ncalls, bridge>>

RemoveSessionReturn(t) ==
    /\ pc[t] = "rm_disconnect"
    /\ \E c \in CallOf(t), ok \in BOOLEAN : remove_session_resume(t, c, ok)
    /\ response' = IF t = "main" THEN "http500" ELSE response
    /\ UNCHANGED <<entry, nsteps, i, step, logs, streamer, input, ncalls, bridge>>

Next ==
    \/ ConnectTerminal
    \/ ExecuteScript
    \/ SyncConnectEmulator
    \/ ConnectReturn
    \/ ExecuteScriptExcept
    \/ ScriptStep
    \/ ScriptStepReturn
    \/ ScriptSleepReturn
    \/ SendTextMoveCursor
    \/ WsStart
    \/ WsTick
    \/ WsReadReturn
    \/ WsCancel
    \/ OrphanReturn
    \/ InputCommand
    \/ InputReturn
    \/ InputNext
    \/ \E t \in Removers : RemoveSession(t)
    \/ \E t \in Removers \cup {"main"} : RemoveSessionReturn(t)

Spec == Init /\ [][Next]_vars

\* The steps of the task that runs execute_script (or connect_terminal)
MainStep ==
    \/ SyncConnectEmulator
    \/ ConnectReturn
    \/ ExecuteScriptExcept
    \/ ScriptStep
    \/ ScriptStepReturn
    \/ ScriptSleepReturn
    \/ SendTextMoveCursor
    \/ RemoveSessionReturn("main")

\* The program when every Driver call and every sleep of that task returns
\* and the event loop resumes the task: the thread pool runs what it is
\* given and the loop runs every callback that is ready.
FairSpec == Spec /\ WF_vars(MainStep)

\* ------------------------------------------- TerminalSession by itself
\* The class under callers that are not the endpoints: two clients call
\* the methods of one TerminalSession in any order, each call awaited
\* before the client's next one.
SessionOps == {"_send_text", "_send_key", "MoveCursor", "_get_data", "_wait"}

\* session.connect() up to its await
ClientConnect(c) ==
    /\ pc[c] = "idle"
    /\ ncalls[c] < MaxCalls
    /\ ncalls' = [ncalls EXCEPT ![c] = @ + 1]
    /\ run_in_executor(c, "_sync_connect")
    /\ pc' = [pc EXCEPT ![c] = "await"]
    /\ UNCHANGED <<sessions, script, streamer, input, result, bridge>>

\* session.disconnect() up to its await: nothing to do without a connection
ClientDisconnect(c) ==
    /\ pc[c] = "idle"
    /\ ncalls[c] < MaxCalls
    /\ ncalls' = [ncalls EXCEPT ![c] = @ + 1]
    /\ IF connection # None
       THEN /\ run_in_executor(c, "Disconnect")
            /\ pc' = [pc EXCEPT ![c] = "await"]
       ELSE /\ is_connected' = FALSE
            /\ UNCHANGED <<connection, emulators, executor, pc>>
    /\ UNCHANGED <<sessions, script, streamer, input, result, bridge>>

\* send_text, send_key, move_cursor, get_screen_data, wait_for_text up to
\* their await: "Not connected" is raised without a connection
ClientCall(c) ==
    /\ pc[c] = "idle"
    /\ ncalls[c] < MaxCalls
    /\ ncalls' = [ncalls EXCEPT ![c] = @ + 1]
    /\ IF connection = None
       THEN UNCHANGED <<session, pc>>
       ELSE \E op \in SessionOps :
            /\ run_in_executor(c, op)
            /\ pc' = [pc EXCEPT ![c] = "await"]
    /\ UNCHANGED <<sessions, script, streamer, input, result, bridge>>

\* The client's call returns or raises
ClientReturn(c) ==
    /\ pc[c] = "await"
    /\ \E k \in CallOf(c), ok \in BOOLEAN : Finish(k, ok)
    /\ pc' = [pc EXCEPT ![c] = "idle"]
    /\ UNCHANGED <<sessions, script, streamer, input, result, ncalls, bridge>>

NextSession ==
    \/ SyncConnectEmulator
    \/ \E c \in Clients : ClientConnect(c)
    \/ \E c \in Clients : ClientDisconnect(c)
    \/ \E c \in Clients : ClientCall(c)
    \/ \E c \in Clients : ClientReturn(c)

SpecSession == Init /\ [][NextSession]_vars

\* ------------------------------------------------------------- claims
\* Calls handed to the executor by the step from this state to the next (a
\* _send that has come to its String and a _sync_connect that has made its
\* Emulator are calls that went on in their threads, not new calls)
Submitted ==
    {c \in executor' \ executor :
        /\ c.op # "String"
        /\ ~\E d \in executor \ executor' : d.task = c.task /\ d.op = c.op}

\* The Emulators made for the session and not closed
OpenHandles == {h \in 1..Len(emulators) : emulators[h] # "closed"}

\* A connect() is in progress
Connecting == \E c \in executor : c.op = "_sync_connect"

\* The Driver calls of the script run, the streamer and the input command
\* that are in flight on the session's handle
InFlight ==
    {c \in executor : c.task \in {"main", "ws", "in"} /\ c.op # "_sync_connect"}

\* C1: single-flight: on a connected session at most one Driver call of
\* the script run, the streamer and the input command is in flight at any
\* time.
C1_SingleFlight ==
    is_connected => Cardinality(InFlight) <= 1

\* C2: whenever the session is not connected and no connect is in
\* progress (before connect, after a failed connect, after disconnect), it
\* holds no Driver handle.
C2_NoHandleWhenDisconnected ==
    (~is_connected /\ ~Connecting) => connection = None

\* C3: disconnect() is idempotent: once a Driver Disconnect has closed the
\* handle, a further disconnect() issues no Driver Disconnect call; and
\* without a handle it issues none either.
C3_DisconnectIdempotent ==
    [][(\E c \in Submitted : c.op = "Disconnect")
         => (connection # None /\ emulators[connection] # "closed")]_vars

\* The creating endpoint's connect() has raised
ConnectFailed ==
    \/ pc["main"] = "except"
    \/ entry = "connect_terminal" /\ response = "http500"
    \/ entry = "execute_script" /\ response = "http500"

\* C4: when connect() fails, the session is left with its Driver handle
\* discarded and is_connected false, and the caller gets the error.
C4_FailedConnectDiscardsHandle ==
    ConnectFailed => (connection = None /\ ~is_connected)

\* The Emulators whose Connect succeeded and that no Disconnect has closed
ConnectedHandles == {h \in 1..Len(emulators) : emulators[h] = "connected"}

\* C5: after any sequence or interleaving of connect() and disconnect()
\* calls on one session, at most one Driver handle is opened and not closed.
C5_AtMostOneOpenHandle ==
    Cardinality(ConnectedHandles) <= 1

\* C6: sendText, sendKey, moveCursor and readScreen on a session that is
\* not Connected (never connected, connect failed, disconnected) issue no
\* Driver call.
C6_NoDriverCallWhenNotConnected ==
    [][(\E c \in Submitted : c.op \in SessionOps)
         => (is_connected \/ Connecting)]_vars

\* The script run was halted by a failing step
RunFailed ==
    /\ pc["main"] = "done"
    /\ logs # <<>>
    /\ logs[Len(logs)].status = "error"

\* C7 as stated: when step k is the first failing step, the log has
\* exactly k entries, steps 1..k-1 with status success and step k with
\* status error.
C7_LogHasKEntries ==
    RunFailed =>
        /\ Len(logs) = i
        /\ \A j \in 1..(i - 1) : logs[j] = ExecutionLog(StepId(j), "success")
        /\ logs[i] = ExecutionLog(StepId(i), "error")

\* C7 amended: when step k is the first failing step, the log has exactly
\* k+1 entries (the connect entry, steps 1..k-1 with status success, step k
\* with status error), no later step is attempted and no Driver call of the
\* run is left or made, and the failure itself leaves the session as it
\* was: is_connected, the Driver handle and the registry are unchanged by
\* the step that logs the error.
C7_StopOnFirstError ==
    /\ [](RunFailed =>
            /\ i \in 1..nsteps
            /\ Len(logs) = i + 1
            /\ logs[1] = ExecutionLog("connect", "success")
            /\ \A j \in 1..(i - 1) : logs[j + 1] = ExecutionLog(StepId(j), "success")
            /\ logs[i + 1] = ExecutionLog(StepId(i), "error")
            /\ CallOf("main") = {})
    /\ [][RunFailed =>
            /\ RunFailed'
            /\ UNCHANGED <<i, logs>>
            /\ \A c \in Submitted : c.task # "main"]_vars
    /\ [][(~RunFailed /\ RunFailed')
            => UNCHANGED <<is_connected, connection, sessions>>]_vars

\* C7 witness: step 2 of 3 failed after step 1 succeeded, session connected
C7_Witness ==
    /\ RunFailed
    /\ i = 2
    /\ nsteps = 3
    /\ is_connected

\* The script run returned with no error entry in its log
RunSucceeded ==
    /\ entry = "execute_script"
    /\ pc["main"] = "done"
    /\ response = "completed"
    /\ \A j \in 1..Len(logs) : logs[j].status = "success"

\* C8: a run in which all n steps succeed yields a log of n+1 entries: the
\* connect entry, then one success entry per step, in script order, with
\* the steps' ids.
C8_AllStepsLogged ==
    RunSucceeded =>
        /\ Len(logs) = nsteps + 1
        /\ logs[1] = ExecutionLog("connect", "success")
        /\ \A j \in 1..nsteps : logs[j + 1] = ExecutionLog(StepId(j), "success")

\* C8 witness: a script of at least two steps ran to its end
C8_Witness ==
    /\ RunSucceeded
    /\ nsteps >= 2
    /\ Len(logs) = nsteps + 1

\* C9: the summary returned to the caller has status failed when the run
\* was halted by a failing step, and completed only when every step
\* succeeded.
C9_FailedRunReportsFailed ==
    /\ RunFailed => response = "failed"
    /\ (pc["main"] = "done" /\ response = "completed") => RunSucceeded

\* C10: after remove_session has completed, the removed session has no
\* open Driver handle, whatever state it was in when remove was called.
C10_RemoveLeavesNoOpenHandle ==
    (\E t \in Removers : pc[t] = "done" /\ result[t] = "ok")
        => OpenHandles = {}

\* C11: after a connect that failed while the session was being created, by
\* either entry point, the registry holds no entry for that session.
ConnectFailedReturned ==
    /\ pc["main"] = "done"
    /\ response = "http500"

C11_FailedConnectEvictsSession ==
    ConnectFailedReturned => SID \notin sessions


\* execute_script is past a successful connect: the connect entry is logged
ConnectSucceeded == entry = "execute_script" /\ logs # <<>>

ErrorEntries == {j \in 1..Len(logs) : logs[j].status = "error"}

\* C12: once connect has succeeded no step failure leaves execute_script as
\* an exception: the endpoint never takes its exception handler and never
\* answers HTTP 500, a failing step adds exactly one error entry (its own)
\* and the call returns the log with its status.
C12_StepFailuresAreLogged ==
    /\ [](ConnectSucceeded =>
            /\ pc["main"] \notin {"except", "rm_disconnect"}
            /\ response # "http500"
            /\ Cardinality(ErrorEntries) <= 1
            /\ (pc["main"] = "done" => response = "completed"))
    /\ [][(ConnectSucceeded /\ pc["main"] # "done" /\ pc'["main"] = "done") =>
            /\ response' = "completed"
            /\ \/ i = nsteps /\ logs' = logs
               \/ logs' = Append(logs, ExecutionLog(StepId(i'), "error"))]_vars
    /\ [][(ConnectSucceeded /\ logs' # logs /\ pc'["main"] # "done") =>
            logs' = Append(logs, ExecutionLog(StepId(i'), "success"))]_vars

C12_Witness ==
    /\ ConnectSucceeded
    /\ pc["main"] = "done"
    /\ response = "completed"
    /\ i = nsteps
    /\ Cardinality(ErrorEntries) = 1


\* The Driver calls of the script's steps that are in flight
StepCallsInFlight ==
    IF ConnectSucceeded THEN {c \in executor : c.task = "main"} ELSE {}

\* The ids of the script's steps and of the log's entries, in order
ScriptIds == [k \in 1..nsteps |-> StepId(k)]
LogIds == [j \in 1..Len(logs) |-> logs[j].step_id]
IsPrefix(a, b) == Len(a) <= Len(b) /\ \A j \in 1..Len(a) : a[j] = b[j]

\* C13 as stated: the steps of a run never overlap, and the step ids of the
\* log are a prefix of the step ids of the script.
C13_LogIsPrefixOfScript ==
    /\ Cardinality(StepCallsInFlight) <= 1
    /\ IsPrefix(LogIds, ScriptIds)

\* C13 amended: the steps of a run are taken in script order and never
\* overlap (a step's Driver call starts only when every earlier step has
\* completed and is logged), and the step ids of the log after its initial
\* connect entry are a prefix of the step ids of the script.
C13_StepsInScriptOrder ==
    /\ [](/\ Cardinality(StepCallsInFlight) <= 1
          /\ \A c \in StepCallsInFlight :
                /\ pc["main"] = "await"
                /\ step.id = StepId(i)
                /\ \/ c.op = StepCall(step)
                   \/ c.op = "String" /\ step.action = "send_text" /\ step.pos
                /\ Len(logs) = i
          /\ ConnectSucceeded =>
                /\ logs[1].step_id = "connect"
                /\ IsPrefix(Tail(LogIds), ScriptIds))
    /\ [][(ConnectSucceeded /\ \E c \in Submitted : c.task = "main") =>
            /\ StepCallsInFlight = {}
            /\ i' = i + 1
            /\ Len(logs) = i']_vars
    /\ [][(ConnectSucceeded /\ i' # i) =>
            /\ i' = i + 1
            /\ StepCallsInFlight = {}
            /\ Len(logs) = i']_vars

C13_Witness ==
    /\ StepCallsInFlight # {}
    /\ i = 3
    /\ Len(logs) = 3


\* The streamer's loop is running
Streaming == pc["ws"] \in {"wait", "read"}

C15_CancelLeavesSessionAlone ==
    /\ [][(pc["ws"] # "cancelled" /\ pc'["ws"] = "cancelled") =>
            /\ Streaming
            /\ UNCHANGED <<events, is_connected, connection, emulators, sessions,
                           executor>>]_vars
    /\ [][pc["ws"] = "cancelled" =>
            /\ pc'["ws"] = "cancelled"
            /\ events' = events
            /\ \A c \in Submitted : c.task # "ws"]_vars
    /\ [][(pc["ws"] = "cancelled" /\ CallOf("ws")' # CallOf("ws")) =>
            UNCHANGED <<is_connected, connection, emulators, sessions>>]_vars

\* Cancelled in the middle of the second read, the session still connected
C15_Witness ==
    /\ pc["ws"] = "cancelled"
    /\ CallOf("ws") # {}
    /\ Len(events) = 1
    /\ is_connected
    /\ SID \in sessions


\* --------------------------------------- move_cursor and get_screen_data
\* SpecCursor: one move_cursor(row, col) and the get_screen_data calls
\* around it, on an Emulator that counts rows and columns from 1 both in
\* MoveCursor and in the status line it reports.

\* The defaults of _get_data
DefaultRows == 24
DefaultCols == 80
DefaultCursor == 0

\* The Emulator before the call: its cursor at its first position
EmulatorAtHome == [cursor |-> <<1, 1>>, moved |-> FALSE]

\* Query('Cursor')[1].split(): 'L U U N N ? rows cols row col 0x00 -'
Query(em) ==
    <<"L", "U", "U", "N", "N", "?", DefaultRows, DefaultCols,
      em.cursor[1], em.cursor[2], "0x00", "-">>

\* _get_data: parts[6..9] of the status line (counted from 0) when it has
\* at least 10 parts, the defaults otherwise; the cursor is returned as read
get_screen_data(em) ==
    LET parts == Query(em)
        full == Len(parts) >= 10
    IN  [method |-> "get_screen_data",
         rows |-> IF full THEN parts[7] ELSE DefaultRows,
         cols |-> IF full THEN parts[8] ELSE DefaultCols,
         cursor_row |-> IF full THEN parts[9] ELSE DefaultCursor,
         cursor_col |-> IF full THEN parts[10] ELSE DefaultCursor]

InitCursor ==
    /\ InitProgram
    /\ call \in {[method |-> "move_cursor", row |-> r, col |-> c] :
                    r \in 0..MaxRow, c \in 0..MaxCol}
    /\ emulator = EmulatorAtHome
    /\ returned = NoCall

\* move_cursor: self.connection.MoveCursor(row + 1, col + 1)
move_cursor ==
    /\ ~emulator.moved
    /\ emulator' = [cursor |-> <<call.row + 1, call.col + 1>>, moved |-> TRUE]
    /\ UNCHANGED <<program, call, returned>>

\* get_screen_data, before or after the move
GetScreenData ==
    /\ returned' = get_screen_data(emulator)
    /\ UNCHANGED <<program, call, emulator>>

NextCursor ==
    \/ move_cursor
    \/ GetScreenData

SpecCursor == InitCursor /\ [][NextCursor]_vars

\* C16: a get_screen_data that follows move_cursor(row, col) returns
\* cursor_row = row and cursor_col = col.
C16_CursorRoundTrip ==
    (emulator.moved /\ returned.method = "get_screen_data"
        /\ returned = get_screen_data(emulator)) =>
        (returned.cursor_row = call.row /\ returned.cursor_col = call.col)


\* -------------------------------------------------------------- send_key
\* SpecKey: one send_key(key) on a connected session.  A key name is the
\* sequence of its characters.

UpperCase == <<"A", "B", "C", "D", "E", "F", "G", "H", "I", "J", "K", "L", "M",
               "N", "O", "P", "Q", "R", "S", "T", "U", "V", "W", "X", "Y", "Z">>
LowerCase == <<"a", "b", "c", "d", "e", "f", "g", "h", "i", "j", "k", "l", "m",
               "n", "o", "p", "q", "r", "s", "t", "u", "v", "w", "x", "y", "z">>
Digit == <<"0", "1", "2", "3", "4", "5", "6", "7", "8", "9">>

\* str.lower()
lower(s) ==
    [j \in 1..Len(s) |->
        IF \E k \in 1..Len(UpperCase) : UpperCase[k] = s[j]
        THEN LowerCase[CHOOSE k \in 1..Len(UpperCase) : UpperCase[k] = s[j]]
        ELSE s[j]]

\* str.startswith(prefix)
startswith(s, prefix) ==
    /\ Len(s) >= Len(prefix)
    /\ SubSeq(s, 1, Len(prefix)) = prefix

\* int(s) of the key names spelled here (letters and digits): defined on the
\* non-empty digit strings, ValueError on every other string
IsInt(s) ==
    /\ s # <<>>
    /\ \A j \in 1..Len(s) : \E d \in 1..Len(Digit) : Digit[d] = s[j]

RECURSIVE int(_)
int(s) ==
    IF s = <<>> THEN 0
    ELSE LET d == CHOOSE d \in 1..Len(Digit) : Digit[d] = s[Len(s)]
         IN  10 * int(SubSeq(s, 1, Len(s) - 1)) + (d - 1)

\* _send of send_key: the Emulator call it makes, or the exception it raises
send_key(key) ==
    LET key_lower == lower(key)
        rest == SubSeq(key_lower, 3, Len(key_lower))
    IN  IF key_lower = <<"e", "n", "t", "e", "r">>
        THEN [method |-> "Enter"]
        ELSE IF startswith(key_lower, <<"p", "f">>)
        THEN IF IsInt(rest) THEN [method |-> "PF", num |-> int(rest)]
                            ELSE [method |-> "ValueError"]
        ELSE IF startswith(key_lower, <<"p", "a">>)
        THEN IF IsInt(rest) THEN [method |-> "PA", num |-> int(rest)]
                            ELSE [method |-> "ValueError"]
        ELSE IF key_lower = <<"c", "l", "e", "a", "r">>
        THEN [method |-> "Clear"]
        ELSE IF key_lower = <<"t", "a", "b">>
        THEN [method |-> "Tab"]
        ELSE IF key_lower = <<"b", "a", "c", "k", "t", "a", "b">>
        THEN [method |-> "BackTab"]
        ELSE [method |-> "Key", key |-> key]

\* The key names send_key is given: every name of at most MaxKeyLen
\* characters of KeyAlphabet, and some longer ones
KeyAlphabet == {"p", "P", "f", "a", "1", "3", "x"}

RECURSIVE Names(_)
Names(n) ==
    IF n = 0 THEN {<<>>}
    ELSE Names(n - 1) \cup {Append(s, ch) : s \in Names(n - 1), ch \in KeyAlphabet}

LongKeys ==
    { <<"e", "n", "t", "e", "r">>, <<"E", "n", "t", "e", "r">>,
      <<"E", "N", "T", "E", "R">>, <<"c", "l", "e", "a", "r">>,
      <<"C", "l", "e", "a", "r">>, <<"t", "a", "b">>, <<"T", "A", "B">>,
      <<"b", "a", "c", "k", "t", "a", "b">>, <<"B", "a", "c", "k", "T", "a", "b">>,
      <<"p", "f", "1", "2">>, <<"P", "F", "1", "2">>, <<"p", "f", "1", "3">>,
      <<"p", "a", "u", "s", "e">>, <<"h", "o", "m", "e">>, <<"H", "o", "m", "e">>,
      <<"p", "f", "0", "1">>, <<"p", "a", "4">> }

Keys == (Names(MaxKeyLen) \ {<<>>}) \cup LongKeys

InitKey ==
    /\ InitProgram
    /\ call \in {[method |-> "send_key", key |-> k] : k \in Keys}
    /\ emulator = NoCall
    /\ returned = NoCall

\* send_key(key): the Emulator receives the call, or _send raises and the
\* exception comes out of send_key
SendKey ==
    /\ returned = NoCall
    /\ LET sent == send_key(call.key)
       IN  IF sent.method = "ValueError"
           THEN /\ returned' = [method |-> "send_key", raised |-> "ValueError"]
                /\ UNCHANGED emulator
           ELSE /\ returned' = [method |-> "send_key", raised |-> "none"]
                /\ emulator' = sent
    /\ UNCHANGED <<program, call>>

NextKey == SendKey

SpecKey == InitKey /\ [][NextKey]_vars

\* The decimal numeral of n, n < 100
Numeral(n) ==
    IF n < 10 THEN <<Digit[n + 1]>>
    ELSE <<Digit[(n \div 10) + 1], Digit[(n % 10) + 1]>>

\* C17: send_key matches the key name without regard to case against
\* enter, pf1..pf12, pa1..pa3, clear, tab and backtab and makes the call of
\* that key; every other name goes unchanged to the Emulator's Key call,
\* and nothing is raised.
C17_KeyNameMapping ==
    returned.method = "send_key" =>
        LET name == lower(call.key)
        IN  /\ returned.raised = "none"
            /\ emulator =
                 IF name = <<"e", "n", "t", "e", "r">> THEN [method |-> "Enter"]
                 ELSE IF \E n \in 1..12 : name = <<"p", "f">> \o Numeral(n)
                 THEN [method |-> "PF",
                       num |-> CHOOSE n \in 1..12 : name = <<"p", "f">> \o Numeral(n)]
                 ELSE IF \E n \in 1..3 : name = <<"p", "a">> \o Numeral(n)
                 THEN [method |-> "PA",
                       num |-> CHOOSE n \in 1..3 : name = <<"p", "a">> \o Numeral(n)]
                 ELSE IF name = <<"c", "l", "e", "a", "r">> THEN [method |-> "Clear"]
                 ELSE IF name = <<"t", "a", "b">> THEN [method |-> "Tab"]
                 ELSE IF name = <<"b", "a", "c", "k", "t", "a", "b">>
                 THEN [method |-> "BackTab"]
                 ELSE [method |-> "Key", key |-> call.key]


\* ---------------------------------- execute_step: assert_text, wait_for_text
\* SpecStep: one assert_text or wait_for_text step run by execute_step on a
\* connected session, with the text of the step and what the Emulator shows.
\* Texts are sequences of characters.

RECURSIVE Strings(_, _)
Strings(alphabet, n) ==
    IF n = 0 THEN {<<>>}
    ELSE Strings(alphabet, n - 1) \cup
         {Append(s, ch) : s \in Strings(alphabet, n - 1), ch \in alphabet}

\* The lines Ascii() returns: screen lines with or without the 'data: '
\* prefix, and status lines
LinePrefix ==
    { <<"d", "a", "t", "a", ":", " ">>, <<"o", "k">>, <<"e", "r", "r", "o", "r">>, <<>> }

AsciiLines == {p \o b : p \in LinePrefix, b \in Strings({"a"}, MaxLineLen)}

RECURSIVE Screens(_)
Screens(n) ==
    IF n = 0 THEN {<<>>}
    ELSE Screens(n - 1) \cup {Append(s, l) : s \in Screens(n - 1), l \in AsciiLines}

\* The for loop of _get_data over screen_lines: cleaned_lines
RECURSIVE cleaned_lines(_)
cleaned_lines(screen_lines) ==
    IF screen_lines = <<>> THEN <<>>
    ELSE LET line == Head(screen_lines)
             rest == cleaned_lines(Tail(screen_lines))
         IN  IF startswith(line, <<"d", "a", "t", "a", ":", " ">>)
             THEN <<SubSeq(line, 7, Len(line))>> \o rest
             ELSE IF ~(startswith(line, <<"o", "k">>)
                       \/ startswith(line, <<"e", "r", "r", "o", "r">>))
             THEN <<line>> \o rest
             ELSE rest

\* '\n'.join(lines)
RECURSIVE join(_)
join(lines) ==
    IF lines = <<>> THEN <<>>
    ELSE IF Len(lines) = 1 THEN lines[1]
    ELSE lines[1] \o <<"\n">> \o join(Tail(lines))

\* ScreenData.text of _get_data
screen_text(screen_lines) == join(cleaned_lines(screen_lines))

\* needle in hay
Contains(hay, needle) ==
    \E k \in 0..(Len(hay) - Len(needle)) : SubSeq(hay, k + 1, k + Len(needle)) = needle

\* A check that looks for the text at the start of the screen only
AssertionFailsAtStart(text, screen) == text # <<>> /\ ~startswith(screen, text)

\* execute_step, ASSERT_TEXT: step.text and step.text not in screen_data.text
AssertionFails(text, screen) == text # <<>> /\ ~Contains(screen, text)

\* What the Emulator's Expect does: it returns when the text is there, it
\* raises when the time is over or when it fails
ExpectOutcome == {"found", "timeout", "error"}

\* A _wait that turns the timeout alone into False
wait_for_textTimeoutOnly(outcome) ==
    IF outcome = "found" THEN "True"
    ELSE IF outcome = "timeout" THEN "False" ELSE "raise"

\* _wait of wait_for_text: True when Expect returns, False when it raises
wait_for_text(outcome) ==
    IF outcome = "found" THEN "True" ELSE "False"

StepTexts == Strings({"a", "b", "\n"}, MaxTextLen)

InitStep ==
    /\ InitProgram
    /\ \/ /\ call \in {[method |-> "execute_step", action |-> "assert_text",
                        text |-> t] : t \in StepTexts}
          /\ emulator \in {[lines |-> l, fails |-> f, reads |-> 0] :
                              l \in Screens(MaxLines), f \in BOOLEAN}
       \/ /\ call \in {[method |-> "execute_step", action |-> "wait_for_text",
                        text |-> t] : t \in StepTexts}
          /\ emulator \in {[expect |-> o, expects |-> 0] : o \in ExpectOutcome}
    /\ returned = NoCall

\* ASSERT_TEXT up to the await of get_screen_data
AssertTextCall ==
    /\ call.action = "assert_text"
    /\ returned = NoCall
    /\ emulator' = [emulator EXCEPT !.reads = @ + 1]
    /\ returned' = [method |-> "get_screen_data"]
    /\ UNCHANGED <<program, call>>

\* get_screen_data raises or returns, and ASSERT_TEXT checks the text; what
\* execute_script logs for the step
AssertTextReturn ==
    /\ call.action = "assert_text"
    /\ returned = [method |-> "get_screen_data"]
    /\ returned' =
         IF emulator.fails
         THEN [method |-> "execute_step", status |-> "error",
               message |-> "Driver", text |-> <<>>, screen |-> <<>>]
         ELSE IF AssertionFails(call.text, screen_text(emulator.lines))
         THEN [method |-> "execute_step", status |-> "error",
               message |-> "Assertion failed", text |-> call.text,
               screen |-> screen_text(emulator.lines)]
         ELSE [method |-> "execute_step", status |-> "success",
               message |-> "", text |-> <<>>,
               screen |-> screen_text(emulator.lines)]
    /\ UNCHANGED <<program, call, emulator>>

\* WAIT_FOR_TEXT up to the await of wait_for_text
WaitForTextCall ==
    /\ call.action = "wait_for_text"
    /\ returned = NoCall
    /\ emulator' = [emulator EXCEPT !.expects = @ + 1]
    /\ returned' = [method |-> "wait_for_text"]
    /\ UNCHANGED <<program, call>>

\* wait_for_text returns (or raises) and WAIT_FOR_TEXT raises on False; what
\* execute_script logs for the step
WaitForTextReturn ==
    /\ call.action = "wait_for_text"
    /\ returned = [method |-> "wait_for_text"]
    /\ LET success == wait_for_text(emulator.expect)
       IN  returned' =
             [method |-> "execute_step",
              success |-> success,
              status |-> IF success = "True" THEN "success" ELSE "error",
              message |-> IF success = "True" THEN ""
                          ELSE IF success = "False" THEN "Timeout waiting for text"
                          ELSE "Driver",
              text |-> IF success = "False" THEN call.text ELSE <<>>]
    /\ UNCHANGED <<program, call, emulator>>

NextStep ==
    \/ AssertTextCall
    \/ AssertTextReturn
    \/ WaitForTextCall
    \/ WaitForTextReturn

SpecStep == InitStep /\ [][NextStep]_vars

\* text occurs in screen: screen = before \o text \o after
IsSubstring(text, screen) ==
    \E a \in 0..Len(screen) : \E b \in a..Len(screen) : SubSeq(screen, a + 1, b) = text

AssertTextDone == call.action = "assert_text" /\ returned.method = "execute_step"

\* C18: an assert_text step reads the screen exactly once, whether it
\* succeeds or fails; when the read returned, the step succeeds exactly when
\* its text is a substring of the screen text that read returned, and the
\* message of a failure names the text.
C18_AssertTextIsSubstringTest ==
    /\ call.action = "assert_text" =>
          emulator.reads = (IF returned = NoCall THEN 0 ELSE 1)
    /\ (AssertTextDone /\ ~emulator.fails) =>
          /\ returned.screen = screen_text(emulator.lines)
          /\ returned.status = "success" <=> IsSubstring(call.text, returned.screen)
          /\ returned.status = "error" =>
                (returned.message = "Assertion failed" /\ returned.text = call.text)
    /\ (AssertTextDone /\ emulator.fails) => returned.status = "error"

\* The text is on the second line of the screen, not at its start
C18_Witness ==
    /\ AssertTextDone
    /\ returned.status = "success"
    /\ call.text = <<"\n", "a">>
    /\ emulator.reads = 1

WaitForTextDone == call.action = "wait_for_text" /\ returned.method = "execute_step"

\* C19: wait_for_text on a connected session never raises; it returns True
\* when Expect found the text and False when Expect timed out or failed;
\* the wait_for_text step is logged as error exactly when it returned False;
\* and Expect is called once.
C19_WaitForTextNeverRaises ==
    /\ call.action = "wait_for_text" =>
          emulator.expects = (IF returned = NoCall THEN 0 ELSE 1)
    /\ WaitForTextDone =>
          /\ returned.success \in {"True", "False"}
          /\ returned.success = "True" <=> emulator.expect = "found"
          /\ returned.status = "error" <=> returned.success = "False"
          /\ returned.status = "success" <=> returned.success = "True"
          /\ returned.status = "error" => returned.message = "Timeout waiting for text"

\* Expect failed (no timeout) and the step is logged as error
C19_Witness ==
    /\ WaitForTextDone
    /\ emulator.expect = "error"
    /\ returned.success = "False"
    /\ returned.status = "error"


\* The place of a call in the order move_cursor, send_text, send_key
OpRank(op) ==
    CASE op = "MoveCursor" -> 1
      [] op = "_send_text" -> 2
      [] op = "_send_key" -> 3

InputCalls == {c \in Submitted : c.task = "in"}

\* C20: the calls of an input command are made in the order move_cursor,
\* send_text, send_key: a call starts only when no call of the command is in
\* flight, it is the first one in that order, after those already made, that
\* the command asks for; a command whose call failed, or that has ended,
\* makes no further call.
C20_InputCallsInOrder ==
    /\ [](Cardinality(CallOf("in")) <= 1)
    /\ [][InputCalls # {} =>
            /\ Cardinality(InputCalls) = 1
            /\ CallOf("in") = {}
            /\ pc["in"] \in {"idle", "next"}
            /\ pc'["in"] = "await"
            /\ stage' > stage
            /\ \A c \in InputCalls : OpRank(c.op) = stage'
            /\ Present(data', stage')
            /\ \A m \in (stage + 1)..(stage' - 1) : ~Present(data', m)
            /\ (pc["in"] = "next" => data' = data)]_vars
    /\ [][(pc["in"] = "await" /\ pc'["in"] # "await") =>
            /\ InputCalls = {}
            /\ CallOf("in")' = {}
            /\ pc'["in"] \in {"next", "done"}]_vars
    /\ [][pc["in"] = "done" => (pc'["in"] = "done" /\ InputCalls = {})]_vars

\* The key is being sent after the cursor was moved and the text was sent
C20_Witness ==
    /\ pc["in"] = "await"
    /\ stage = 3
    /\ data.pos /\ data.text /\ data.key
    /\ \E c \in CallOf("in") : c.op = "_send_key"


\* A positioned send_text is between its MoveCursor and its String
BetweenMoveAndSend == {c \in executor : c.op = "String"}

\* C21: while a send_text with row and col is between its cursor move and
\* its text send, no Driver call of another task is in flight on the
\* session's Emulator, none is started and none finishes.
C21_SendTextMoveAndSendSerialized ==
    /\ [](\A c \in BetweenMoveAndSend :
            \A d \in executor : d.h = c.h => d = c)
    /\ [][\A c \in BetweenMoveAndSend :
            /\ \A d \in Submitted : d.h # c.h
            /\ \A d \in executor \ executor' : d = c]_vars


\* C22: when a remove_session ends, by returning or by raising, the registry
\* holds no entry for the session, also when Disconnect failed.
C22_RemoveAlwaysEvicts ==
    [][\A t \in Removers :
        (pc[t] # "done" /\ pc'[t] = "done") => SID \notin sessions']_vars


\* C23: whatever connect, disconnect and the other methods are called and
\* however they end, a session whose is_connected is true holds a Driver
\* handle.
C23_ConnectedHasHandle == is_connected => connection # None

\* Connected again after a disconnect, with a call that failed or not
C23_Witness ==
    /\ is_connected
    /\ connection = 2
    /\ emulators[1] = "closed"
    /\ \E c \in Clients : ncalls[c] = MaxCalls


\* The Disconnect calls that remove_session calls have in flight
RemoverDisconnects == {c \in executor : c.op = "Disconnect" /\ c.task \in Removers}

\* C24: of two remove_session calls that overlap on a connected session
\* neither ends with KeyError, and the Emulator's Disconnect is not called
\* by both: never two Disconnect calls in flight for the session's handle.
C24_OverlappingRemoves ==
    /\ \A t \in Removers : result[t] # "KeyError"
    /\ \A c, d \in RemoverDisconnects : c.h = d.h => c = d


\* A remove_session of the session has completed
RemoveCompleted == \E t \in Removers : pc[t] = "done" /\ result[t] = "ok"

\* C25: once a remove_session has completed, no task hands a further call
\* on the session's Emulator to the executor.
C25_NoDriverCallAfterRemove ==
    [][RemoveCompleted => Submitted = {}]_vars


\* C26: with every Driver call and every wait returning, a started
\* execute_script comes to its end, whatever the streamer, the input
\* commands and the removes do meanwhile; it never goes past the n steps of
\* the script and never logs more than the connect entry and n steps.
C26_ScriptRunTerminates ==
    /\ (entry = "execute_script") ~> (pc["main"] = "done")
    /\ [](i <= nsteps /\ Len(logs) <= nsteps + 1)

\* A run of three steps has ended while the streamer sent events and an
\* input command ran
C26_Witness ==
    /\ entry = "execute_script"
    /\ pc["main"] = "done"
    /\ nsteps = 3
    /\ i = 3
    /\ events # <<>>
    /\ pc["in"] = "done"

====
